---------------------------- MODULE Spec2Model ----------------------------
(***************************************************************************)
(* A model of micro-grad-rs: the reverse-mode automatic differentiation    *)
(* engine of src/src/scalar.rs (graph nodes, the operations that build     *)
(* them, the back-propagation pass) and the Neuron of src/src/nn.rs.       *)
(*                                                                         *)
(* A graph node (struct Value) is an entry of the sequence `nodes`; its    *)
(* index is its identity (the address that ptr::eq and ptr::hash use).     *)
(* The numeric type T: Float is a binary floating-point format with        *)
(* Precision significant bits and round-to-nearest-even; a number is a     *)
(* fraction <<n, d>> in lowest terms, <<1,0>> and <<-1,0>> are the         *)
(* infinities and <<0,0>> is NaN.                                          *)
(***************************************************************************)
EXTENDS Integers, Sequences, FiniteSets, TLC

\* ------------------------------------------------------------ bounds ----

\* Significant bits of the floating-point format that stands for T.
Precision == 11

\* Leaves of the engine specification hold an integer in -MaxData..MaxData.
MaxData == 1

\* Nodes the engine specification allocates at most.
MaxNodes == 3

\* back_prop calls per behaviour of the engine specification.
MaxPasses == 2

\* add_to_data calls per behaviour.
MaxMutations == 1

\* Operands of the arithmetic specification lie in -MaxOperand..MaxOperand.
MaxOperand == 5

\* Nodes the arithmetic specification allocates at most.
MaxOpNodes == 5

\* Weights of the neuron of the neuron specification: 1..MaxWeights.
MaxWeights == 2

\* Nodes the neuron specification allocates at most.
MaxNeuronNodes == 7
MaxInputs == 2

\* ----------------------------------------------------------- numbers ----

Abs(x) == IF x < 0 THEN -x ELSE x

Sign(x) == IF x < 0 THEN -1 ELSE IF x > 0 THEN 1 ELSE 0

RECURSIVE GCD(_, _)
GCD(a, b) == IF b = 0 THEN a ELSE GCD(b, a % b)

RECURSIVE Pow2(_)
Pow2(k) == IF k <= 0 THEN 1 ELSE 2 * Pow2(k - 1)

\* The fraction n/d in lowest terms with a positive denominator; a zero
\* denominator gives an infinity (n # 0) or NaN (n = 0).
Q(n, d) ==
    IF d = 0 THEN <<Sign(n), 0>>
    ELSE LET g == GCD(Abs(n), Abs(d))
             s == Sign(d)
         IN  <<(s * n) \div g, (s * d) \div g>>

Int2Q(k) == <<k, 1>>

Zero == Int2Q(0)
One == Int2Q(1)
NaN == <<0, 0>>
PosInf == <<1, 0>>

IsFinite(x) == x[2] # 0
IsNaN(x) == x = NaN

\* Exact arithmetic on fractions; the sum of two infinities of one sign is
\* that infinity, a sum with one infinity or a NaN follows from the
\* cross-multiplication, and finite fractions are added over their least
\* common denominator.
QAdd(x, y) ==
    IF ~IsFinite(x) /\ x = y THEN x
    ELSE IF ~IsFinite(x) \/ ~IsFinite(y)
    THEN Q(x[1] * y[2] + y[1] * x[2], x[2] * y[2])
    ELSE LET g == GCD(x[2], y[2])
         IN  Q(x[1] * (y[2] \div g) + y[1] * (x[2] \div g),
               (x[2] \div g) * y[2])

\* The product, cancelling across the fractions before multiplying.
QMul(x, y) ==
    IF ~IsFinite(x) \/ ~IsFinite(y) THEN Q(x[1] * y[1], x[2] * y[2])
    ELSE LET g == GCD(Abs(x[1]), y[2])
             h == GCD(Abs(y[1]), x[2])
         IN  Q((x[1] \div g) * (y[1] \div h),
               (x[2] \div h) * (y[2] \div g))

QNeg(x) == <<-x[1], x[2]>>

QSub(x, y) == QAdd(x, QNeg(y))

QInv(x) == Q(x[2], x[1])

QDiv(x, y) == QMul(x, QInv(y))

QLess(x, y) == x[1] * y[2] < y[1] * x[2]

RECURSIVE QPowInt(_, _)
QPowInt(x, p) ==
    IF p = 0 THEN One
    ELSE IF p < 0 THEN QInv(QPowInt(x, -p))
    ELSE QMul(x, QPowInt(x, p - 1))

\* x / y rounded to the nearest integer, ties to even (x >= 0, y > 0).
RoundHalfEven(x, y) ==
    LET q == x \div y
        r == x % y
    IN  IF 2 * r < y THEN q
        ELSE IF 2 * r > y THEN q + 1
        ELSE IF q % 2 = 0 THEN q ELSE q + 1

\* The binary exponent e with 2^(Precision-1) <= a/d * 2^(-e) < 2^Precision.
RECURSIVE Exponent(_, _)
Exponent(a, d) ==
    IF a \div d >= Pow2(Precision)
    THEN 1 + (IF a % 2 = 0 THEN Exponent(a \div 2, d) ELSE Exponent(a, 2 * d))
    ELSE IF a \div d < Pow2(Precision - 1)
    THEN (IF d % 2 = 0 THEN Exponent(a, d \div 2) ELSE Exponent(2 * a, d)) - 1
    ELSE 0

\* The floating-point number nearest to the fraction x: its significand is
\* cut to Precision bits, rounding to nearest, ties to even.  The exponent
\* range is not bounded.
Round(x) ==
    IF ~IsFinite(x) \/ x[1] = 0 THEN x
    ELSE LET a == Abs(x[1])
             d == x[2]
             e == Exponent(a, d)
             m == IF e >= 0 THEN RoundHalfEven(a, d * Pow2(e))
                  ELSE LET g == GCD(Pow2(-e), d)
                       IN  RoundHalfEven(a * (Pow2(-e) \div g), d \div g)
         IN  IF e >= 0 THEN Q(Sign(x[1]) * m * Pow2(e), 1)
             ELSE Q(Sign(x[1]) * m, Pow2(-e))

\* T's operations: the exact result, rounded once.
FAdd(x, y) == Round(QAdd(x, y))
FSub(x, y) == Round(QSub(x, y))
FDiv(x, y) == Round(QDiv(x, y))

\* The largest power of two that divides the denominator d.
RECURSIVE Pow2Part(_)
Pow2Part(d) == IF d > 0 /\ d % 2 = 0 THEN 2 * Pow2Part(d \div 2) ELSE 1

\* x scaled down by the power of two p, which changes the exponent alone.
ShiftDown(x, p) == IF IsFinite(x) THEN Q(x[1], x[2] * p) ELSE x

\* The product as the hardware forms it: the significands are multiplied
\* and rounded, the exponents (the powers of two of the denominators) added.
FMul(x, y) ==
    LET p == Pow2Part(x[2])
        q == Pow2Part(y[2])
    IN  ShiftDown(ShiftDown(Round(QMul(<<x[1], x[2] \div p>>,
                                       <<y[1], y[2] \div q>>)), p), q)

\* Float::powf for an integer exponent.
Powf(x, p) == Round(QPowInt(x, p))


\* ------------------------------------------------------------- state ----

VARIABLES
    nodes,      \* the graph nodes (struct Value), indexed by identity
    cap,        \* how many nodes this behaviour may allocate
    neuron,     \* the Neuron: its weights and its bias (node identities)
    result,     \* what the last call returned to its caller
    pc,         \* "idle", or "back_prop" inside back_prop's loop
    root,       \* the Scalar back_prop was called on
    topological_ordering, \* back_prop's local of that name
    idx,        \* the position the reversed iteration reaches next
    fired,      \* per node: closure invocations in the current pass
    pre,        \* per node: grad when the current pass was called
    passes,     \* the completed passes: root, grads before and after
    zeroed,     \* nodes zero_grad was called on since the last pass
    mutations,  \* add_to_data calls so far
    handles,    \* per node: the Scalar handles the caller holds to it
    mlp,        \* the MultiLayerPerceptron: its layers of neurons
    train       \* train's locals: k, loss, y_predictions, xs and ys

vars == <<nodes, cap, neuron, result, pc, root, topological_ordering, idx,
          fired, pre, passes, zeroed, mutations, handles, mlp, train>>

engine == <<pc, root, topological_ordering, idx, fired, pre, passes>>

Ids == 1..Len(nodes)

\* What a call hands back: a Scalar (ret, a node), unit, or an Err(String).
Returned(call, args, node) ==
    [call |-> call, args |-> args, ok |-> TRUE, ret |-> node, err |-> <<>>]
Unit(call, args) == Returned(call, args, 0)
Failed(call, args, message) ==
    [call |-> call, args |-> args, ok |-> FALSE, ret |-> 0, err |-> message]
NoCall == Unit("", <<>>)

\* A label is a sequence of tokens: a piece of text, or a number that
\* format! prints.
Text(s) == <<[t |-> s, n |-> 0, d |-> 0]>>
Num(x) == <<[t |-> "#", n |-> x[1], d |-> x[2]]>>

\* Value::new
ValueNew(data) ==
    [data |-> data, grad |-> Zero, label |-> <<>>, op |-> "leaf",
     producers |-> <<>>, power |-> 0, built |-> <<>>]

Data(g, i) == g[i].data
Grad(g, i) == g[i].grad
Grads(g) == [i \in 1..Len(g) |-> g[i].grad]

\* set_label on node i of graph g
WithLabel(g, i, label) == [g EXCEPT ![i].label = label]

\* The handles once a call has grown the graph to g and returned the
\* Scalars outs: one handle to each of these; the other new nodes were
\* temporaries of the call, whose handles it dropped before returning.
Held(h, g, outs) ==
    [i \in 1..Len(g) |-> IF i <= Len(h) THEN h[i]
                         ELSE IF i \in outs THEN 1 ELSE 0]

\* ------------------------------------------- building the graph (pure) --
\* Each operator takes the graph and the operands and returns the graph
\* with the new node(s) appended; the result of the operation is the last
\* node.

\* Scalar::new
ScalarNew(g, data) == Append(g, ValueNew(data))

\* Scalar::new_with_label
ScalarNewWithLabel(g, data, label) ==
    WithLabel(ScalarNew(g, data), Len(g) + 1, label)

\* Add for &Scalar
AddData(x, y) == FAdd(x, y)

ScalarAdd(g, a, b) ==
    Append(g, [data |-> AddData(g[a].data, g[b].data), grad |-> Zero,
               label |-> Text("(") \o g[a].label \o Text(" + ")
                         \o g[b].label \o Text(")"),
               op |-> "add", producers |-> <<a, b>>, power |-> 0,
               built |-> <<g[a].data, g[b].data>>])

\* Mul for &Scalar
MulData(x, y) == FMul(x, y)

ScalarMul(g, a, b) ==
    Append(g, [data |-> MulData(g[a].data, g[b].data), grad |-> Zero,
               label |-> Text("(") \o g[a].label \o Text(" * ")
                         \o g[b].label \o Text(")"),
               op |-> "mul", producers |-> <<a, b>>, power |-> 0,
               built |-> <<g[a].data, g[b].data>>])

\* Scalar::pow
ScalarPow(g, a, power) ==
    Append(g, [data |-> Powf(g[a].data, power), grad |-> Zero,
               label |-> Text("(") \o g[a].label \o Text("^")
                         \o Num(Int2Q(power)) \o Text(")"),
               op |-> "pow", producers |-> <<a>>, power |-> power,
               built |-> <<g[a].data>>])

\* Scalar::add_number
ScalarAddNumber(g, a, number) ==
    ScalarAdd(WithLabel(ScalarNew(g, number), Len(g) + 1,
                  Text("(Constant ") \o Num(number) \o Text(")")),
              a, Len(g) + 1)

\* Scalar::mul_number
ScalarMulNumber(g, a, number) ==
    ScalarMul(WithLabel(ScalarNew(g, number), Len(g) + 1,
                  Text("(Constant ") \o Num(number) \o Text(")")),
              a, Len(g) + 1)

\* Neg for &Scalar
ScalarNeg(g, a) ==
    LET h == ScalarMulNumber(g, a, Int2Q(-1))
    IN  WithLabel(h, Len(h), Text("(not ") \o g[a].label \o Text(")"))

\* Sub for &Scalar
ScalarSub(g, a, b) ==
    LET h == ScalarNeg(g, b)
        k == ScalarAdd(h, a, Len(h))
    IN  WithLabel(k, Len(k), Text("(") \o g[a].label \o Text(" - ")
                             \o g[b].label \o Text(")"))

\* A quotient built without the reciprocal: a * b^1.
ScalarDivNoReciprocal(g, a, b) ==
    LET h == ScalarPow(g, b, 1)
    IN  ScalarMul(h, a, Len(h))

\* Div for &Scalar
ScalarDiv(g, a, b) ==
    LET h == ScalarPow(g, b, -1)
    IN  ScalarMul(h, a, Len(h))


\* Float::tanh, which the library computes: here the rational function
\* x (15 + x^2) / (15 + 6 x^2) in T's arithmetic, kept within [-1, 1].  It
\* is odd and bounded as tanh is; no claim rests on its digits.
Tanh(x) ==
    IF IsNaN(x) THEN NaN
    ELSE IF ~IsFinite(x) THEN Int2Q(x[1])
    ELSE LET xx == FMul(x, x)
             r == FDiv(FMul(x, FAdd(Int2Q(15), xx)),
                       FAdd(Int2Q(15), FMul(Int2Q(6), xx)))
         IN  IF QLess(One, r) THEN One
             ELSE IF QLess(r, Int2Q(-1)) THEN Int2Q(-1)
             ELSE r

\* Scalar::tanh
ScalarTanh(g, a) ==
    Append(g, [data |-> Tanh(g[a].data), grad |-> Zero,
               label |-> Text("tanh(") \o g[a].label \o Text(")"),
               op |-> "tanh", producers |-> <<a>>, power |-> 0,
               built |-> <<g[a].data>>])

\* ------------------------------------------------------------ Neuron ----

\* Neuron::new, for the weights and the bias the random generator gave:
\* the nodes w0, w1, ... and b, appended to g.
RECURSIVE NeuronNodes(_, _, _)
NeuronNodes(g, weights, i) ==
    IF i > Len(weights) THEN g
    ELSE NeuronNodes(ScalarNewWithLabel(g, weights[i],
                         Text("w") \o Num(Int2Q(i - 1))),
                     weights, i + 1)

NeuronNew(g, weights, bias) ==
    [nodes |-> ScalarNewWithLabel(NeuronNodes(g, weights, 1), bias, Text("b")),
     neuron |-> [weights |-> [i \in 1..Len(weights) |-> Len(g) + i],
                 bias |-> Len(g) + Len(weights) + 1]]

\* inputs.len() != self.weights.len(), with too few inputs only.
ShapeMismatchTooFew(nr, inputs) == Len(inputs) < Len(nr.weights)

\* Neuron::forward's check: inputs.len() != self.weights.len()
ShapeMismatch(nr, inputs) == Len(inputs) # Len(nr.weights)

\* format!("Expected {} inputs, not {}", weights.len(), inputs.len())
ShapeError(nr, inputs) ==
    Text("Expected ") \o Num(Int2Q(Len(nr.weights))) \o Text(" inputs, not ")
    \o Num(Int2Q(Len(inputs)))

Min(a, b) == IF a < b THEN a ELSE b

\* The loop of Neuron::forward over inputs.iter().zip(weights.iter()), from
\* pair i on: sum = &sum + &(input * weight).  st is [g, sum].
RECURSIVE WeightedSum(_, _, _, _)
WeightedSum(st, nr, inputs, i) ==
    IF i > Min(Len(inputs), Len(nr.weights)) THEN st
    ELSE LET product == ScalarMul(st.g, inputs[i], nr.weights[i])
             added == ScalarAdd(product, st.sum, Len(product))
         IN  WeightedSum([g |-> added, sum |-> Len(added)], nr, inputs, i + 1)

\* Neuron::forward past its check: tanh(sum of weight * input, plus bias)
Forward(g, nr, inputs) ==
    LET st == WeightedSum([g |-> g, sum |-> nr.bias], nr, inputs, 1)
    IN  ScalarTanh(st.g, st.sum)

Range(f) == {f[i] : i \in DOMAIN f}

\* Neuron::parameters
Parameters(nr) == Append(nr.weights, nr.bias)

\* ------------------------------------- Layer and MultiLayerPerceptron ----

\* The element of a one-element set.  Only({F(x) : x \in {e}}) is F(e) with
\* e evaluated once, whatever the number of places F uses it in.
Only(S) == CHOOSE x \in S : TRUE

\* uniform.sample(&mut rng) for the i-th time, rng being the numbers the
\* generator gives, over and over.
Sample(rng, i) == rng[((i - 1) % Len(rng)) + 1]

\* Layer::new from neuron j on: each Neuron::new(num_inputs) draws its
\* weights, then its bias.  st is [g, neurons, drawn].
RECURSIVE LayerNeurons(_, _, _, _, _)
LayerNeurons(st, num_inputs, num_outputs, rng, j) ==
    IF j > num_outputs THEN st
    ELSE Only({LayerNeurons([g |-> made.nodes,
                             neurons |-> Append(was.neurons, made.neuron),
                             drawn |-> was.drawn + num_inputs + 1],
                            num_inputs, num_outputs, rng, j + 1) :
               <<was, made>> \in
                   {<<st, NeuronNew(st.g,
                           [k \in 1..num_inputs |-> Sample(rng, st.drawn + k)],
                           Sample(rng, st.drawn + num_inputs + 1))>>}})

\* Layer::new
LayerNew(g, num_inputs, num_outputs, rng, drawn) ==
    LayerNeurons([g |-> g, neurons |-> <<>>, drawn |-> drawn],
                 num_inputs, num_outputs, rng, 1)

\* The input count left unchanged from one layer to the next.
NumInputsKept(num_inputs, num_outputs) == num_inputs

\* `num_inputs = *num_outputs;` in MultiLayerPerceptron::new
NumInputsOfNext(num_inputs, num_outputs) == num_outputs

\* The closure of MultiLayerPerceptron::new over layer_num_outputs, from
\* layer l on.  st is [g, layers, drawn].
RECURSIVE MlpLayers(_, _, _, _, _)
MlpLayers(st, num_inputs, layer_num_outputs, rng, l) ==
    IF l > Len(layer_num_outputs) THEN st
    ELSE Only({MlpLayers([g |-> layer.g,
                          layers |-> Append(was.layers, layer.neurons),
                          drawn |-> layer.drawn],
                         NumInputsOfNext(num_inputs, layer_num_outputs[l]),
                         layer_num_outputs, rng, l + 1) :
               <<was, layer>> \in
                   {<<st, LayerNew(st.g, num_inputs, layer_num_outputs[l],
                                   rng, st.drawn)>>}})

\* MultiLayerPerceptron::new.  The struct keeps the layers; num_inputs is
\* kept beside them as the argument the constructor was given.
MultiLayerPerceptronNew(g, num_inputs, layer_num_outputs, rng) ==
    Only({[nodes |-> st.g,
           mlp |-> [num_inputs |-> num_inputs, layers |-> st.layers]] :
          st \in {MlpLayers([g |-> g, layers |-> <<>>, drawn |-> 0],
                            num_inputs, layer_num_outputs, rng, 1)}})

\* `self.neurons.iter().map(|n| n.forward(inputs).expect("")).collect()`
\* from neuron j on: the first Err ends it in a panic.
\* st is [g, outs, ok, err].
RECURSIVE LayerForward(_, _, _, _)
LayerForward(st, layer, inputs, j) ==
    IF j > Len(layer) \/ ~st.ok THEN st
    ELSE IF ShapeMismatch(layer[j], inputs)
    THEN [st EXCEPT !.ok = FALSE, !.err = ShapeError(layer[j], inputs)]
    ELSE Only({LayerForward([was EXCEPT !.g = g, !.outs = Append(@, Len(g))],
                            layer, inputs, j + 1) :
               <<was, g>> \in {<<st, Forward(st.g, layer[j], inputs)>>}})

\* `inputs.iter().map(|i| Scalar::new(i.clone())).collect()`
RECURSIVE ScalarsOf(_, _)
ScalarsOf(g, numbers) ==
    IF numbers = <<>> THEN g
    ELSE ScalarsOf(ScalarNew(g, Head(numbers)), Tail(numbers))

\* Layer::forward_with_numbers
LayerForwardWithNumbers(g, layer, numbers) ==
    Only({LayerForward([g |-> scalars, outs |-> <<>>, ok |-> TRUE,
                        err |-> <<>>],
                       layer, [i \in 1..Len(numbers) |-> Len(g) + i], 1) :
          scalars \in {ScalarsOf(g, numbers)}})

\* The loop of MultiLayerPerceptron::forward over layers.iter().skip(1),
\* from layer l on: hidden_layer = layer.forward(&hidden_layer).
RECURSIVE HiddenLayers(_, _, _)
HiddenLayers(st, layers, l) ==
    IF l > Len(layers) \/ ~st.ok THEN st
    ELSE Only({HiddenLayers(hidden_layer, layers, l + 1) :
               hidden_layer \in {LayerForward([st EXCEPT !.outs = <<>>],
                                              layers[l], st.outs, 1)}})

\* MultiLayerPerceptron::forward
MlpForward(g, m, numbers) ==
    Only({HiddenLayers(hidden_layer, m.layers, 2) :
          hidden_layer \in {LayerForwardWithNumbers(g, m.layers[1], numbers)}})

\* Layer::parameters
RECURSIVE LayerParameters(_)
LayerParameters(layer) ==
    IF layer = <<>> THEN <<>>
    ELSE Parameters(Head(layer)) \o LayerParameters(Tail(layer))

\* MultiLayerPerceptron::parameters
RECURSIVE LayersParameters(_)
LayersParameters(layers) ==
    IF layers = <<>> THEN <<>>
    ELSE LayerParameters(Head(layers)) \o LayersParameters(Tail(layers))

MlpParameters(m) == LayersParameters(m.layers)

\* --------------------------------------------------- back-propagation ---

\* back_prop's inner fn visit: a depth-first walk along the producer
\* edges.  st is [order, visited]: topological_ordering and the visited set.
RECURSIVE visit(_, _, _), VisitProducers(_, _, _)

\* A visit that never records what it has visited.
visitUnmarked(g, st, s) ==
    IF s \in st.visited THEN st
    ELSE LET walked == VisitProducers(g, st, g[s].producers)
         IN  [walked EXCEPT !.order = Append(@, s)]

visit(g, st, s) ==
    IF s \in st.visited THEN st
    ELSE LET entered == [st EXCEPT !.visited = @ \cup {s}]
             walked == VisitProducers(g, entered, g[s].producers)
         IN  [walked EXCEPT !.order = Append(@, s)]

\* the for loop over scalar.value.borrow().producers.clone()
VisitProducers(g, st, children) ==
    IF children = <<>> THEN st
    ELSE VisitProducers(g, visit(g, st, Head(children)), Tail(children))

\* An ordering the loop would walk from the leaves to the root.
TopologicalOrderingBackwards(g, s) ==
    LET order == visit(g, [order |-> <<>>, visited |-> {}], s).order
    IN  [i \in 1..Len(order) |-> order[Len(order) + 1 - i]]

TopologicalOrdering(g, s) ==
    visit(g, [order |-> <<>>, visited |-> {}], s).order

\* x += y on a grad cell
AddAssign(g, i, y) == [g EXCEPT ![i].grad = FAdd(@, y)]

\* An add rule that contributes once to an operand used twice.
AddBackwardOncePerNode(g, s) ==
    LET a == g[s].producers[1]
        b == g[s].producers[2]
        g1 == AddAssign(g, a, g[s].grad)
    IN  IF a = b THEN g1 ELSE AddAssign(g1, b, g1[s].grad)

\* The closure Add installs: both operands' grad grow by the result's grad.
AddBackward(g, s) ==
    LET a == g[s].producers[1]
        b == g[s].producers[2]
        g1 == AddAssign(g, a, g[s].grad)
    IN  AddAssign(g1, b, g1[s].grad)

\* A multiply rule with the operands exchanged: each operand's grad grows
\* by its own data times the result's grad.
MulBackwardSwapped(g, s) ==
    LET a == g[s].producers[1]
        b == g[s].producers[2]
        out_grad == g[s].grad
        g1 == AddAssign(g, a, FMul(g[a].data, out_grad))
    IN  AddAssign(g1, b, FMul(g[b].data, out_grad))

\* A multiply rule that uses the operands' data read at construction.
MulBackwardCaptured(g, s) ==
    LET a == g[s].producers[1]
        b == g[s].producers[2]
        out_grad == g[s].grad
        g1 == AddAssign(g, a, FMul(g[s].built[2], out_grad))
    IN  AddAssign(g1, b, FMul(g[s].built[1], out_grad))

\* The closure Mul installs: it reads the operands' data when it runs.
MulBackward(g, s) ==
    LET a == g[s].producers[1]
        b == g[s].producers[2]
        self_data == g[a].data
        rhs_data == g[b].data
        out_grad == g[s].grad
        g1 == AddAssign(g, a, FMul(rhs_data, out_grad))
    IN  AddAssign(g1, b, FMul(self_data, out_grad))

\* The closure pow installs.
PowBackward(g, s) ==
    LET a == g[s].producers[1]
        power == g[s].power
        self_data == g[a].data
        out_grad == g[s].grad
    IN  AddAssign(g, a, FMul(FMul(Int2Q(power), Powf(self_data, power - 1)),
                             out_grad))

\* The closure tanh installs.
TanhBackward(g, s) ==
    LET a == g[s].producers[1]
        t == g[s].data
        out_grad == g[s].grad
    IN  AddAssign(g, a, FMul(FSub(One, FMul(t, t)), out_grad))

\* Value.back_prop: None for a leaf, else the closure of the operation.
HasBackProp(g, s) == g[s].op # "leaf"

Closure(g, s) ==
    CASE g[s].op = "add" -> AddBackward(g, s)
      [] g[s].op = "mul" -> MulBackward(g, s)
      [] g[s].op = "pow" -> PowBackward(g, s)
      [] g[s].op = "tanh" -> TanhBackward(g, s)

\* A seed that adds 1 to the root's grad.
SeedAccumulates(g, r) == [g EXCEPT ![r].grad = FAdd(@, One)]

\* A seed that first resets every grad.
SeedResetsAll(g, r) ==
    [i \in 1..Len(g) |-> [g[i] EXCEPT !.grad = IF i = r THEN One ELSE Zero]]

\* `if let Some(back_prop) = &s.value.borrow().back_prop { back_prop() }`
Invoke(g, s) == IF HasBackProp(g, s) THEN Closure(g, s) ELSE g

\* back_prop up to its loop: the ordering, then the seed.
Seed(g, r) == [g EXCEPT ![r].grad = One]

BackPropCall(r) ==
    /\ pc = "idle"
    /\ Len(passes) < MaxPasses
    /\ r \in Ids
    /\ topological_ordering' = TopologicalOrdering(nodes, r)
    /\ nodes' = Seed(nodes, r)
    /\ idx' = Len(topological_ordering')
    /\ root' = r
    /\ pc' = "back_prop"
    /\ fired' = [i \in Ids |-> 0]
    /\ pre' = Grads(nodes)
    /\ UNCHANGED <<cap, neuron, result, passes, zeroed, mutations,
                   handles,
                   mlp, train>>

\* One iteration of `for s in topological_ordering.iter().rev()`.
BackPropStep ==
    /\ pc = "back_prop"
    /\ idx >= 1
    /\ nodes' = Invoke(nodes, topological_ordering[idx])
    /\ fired' = [fired EXCEPT ![topological_ordering[idx]] =
                     IF HasBackProp(nodes, topological_ordering[idx])
                     THEN @ + 1 ELSE @]
    /\ idx' = idx - 1
    /\ UNCHANGED <<cap, neuron, result, pc, root, topological_ordering, pre,
                   passes, zeroed, mutations,
                   handles,
                   mlp, train>>

\* The loop is over: back_prop returns.
BackPropReturn ==
    /\ pc = "back_prop"
    /\ idx = 0
    /\ pc' = "idle"
    /\ passes' = Append(passes, [root |-> root, pre |-> pre,
                                 post |-> Grads(nodes), zeroed |-> zeroed,
                                 mutations |-> mutations,
                                 size |-> Len(nodes)])
    /\ zeroed' = {}
    /\ result' = Unit("back_prop", <<root>>)
    /\ UNCHANGED <<nodes, cap, neuron, root, topological_ordering, idx,
                   fired, pre, mutations,
                   handles,
                   mlp, train>>

\* ---------------------------------------------- the other operations ----

Allocates(k) == pc = "idle" /\ Len(nodes) + k <= cap

NewScalar(data) ==
    /\ Allocates(1)
    /\ nodes' = ScalarNew(nodes, data)
    /\ result' = Returned("new", <<>>, Len(nodes'))
    /\ handles' = Held(handles, nodes', {Len(nodes')})
    /\ UNCHANGED <<cap, neuron, engine, zeroed, mutations,
                   mlp, train>>

Add(a, b) ==
    /\ Allocates(1)
    /\ nodes' = ScalarAdd(nodes, a, b)
    /\ result' = Returned("add", <<a, b>>, Len(nodes'))
    /\ handles' = Held(handles, nodes', {Len(nodes')})
    /\ UNCHANGED <<cap, neuron, engine, zeroed, mutations,
                   mlp, train>>

Mul(a, b) ==
    /\ Allocates(1)
    /\ nodes' = ScalarMul(nodes, a, b)
    /\ result' = Returned("mul", <<a, b>>, Len(nodes'))
    /\ handles' = Held(handles, nodes', {Len(nodes')})
    /\ UNCHANGED <<cap, neuron, engine, zeroed, mutations,
                   mlp, train>>

Sub(a, b) ==
    /\ Allocates(3)
    /\ nodes' = ScalarSub(nodes, a, b)
    /\ result' = Returned("sub", <<a, b>>, Len(nodes'))
    /\ handles' = Held(handles, nodes', {Len(nodes')})
    /\ UNCHANGED <<cap, neuron, engine, zeroed, mutations,
                   mlp, train>>

Div(a, b) ==
    /\ Allocates(2)
    /\ nodes' = ScalarDiv(nodes, a, b)
    /\ result' = Returned("div", <<a, b>>, Len(nodes'))
    /\ handles' = Held(handles, nodes', {Len(nodes')})
    /\ UNCHANGED <<cap, neuron, engine, zeroed, mutations,
                   mlp, train>>

\* Scalar::zero_grad: this node's grad becomes zero, nothing else changes.
ZeroGrad(n) ==
    /\ pc = "idle"
    /\ n \in Ids
    /\ nodes' = [nodes EXCEPT ![n].grad = Zero]
    /\ zeroed' = zeroed \cup {n}
    /\ result' = Unit("zero_grad", <<n>>)
    /\ UNCHANGED <<cap, neuron, engine, mutations,
                   handles,
                   mlp, train>>

\* Scalar::add_to_data: data += delta in place; no other node is touched.
AddToData(n, delta) ==
    /\ pc = "idle"
    /\ n \in Ids
    /\ mutations < MaxMutations
    /\ LET updated == FAdd(nodes[n].data, delta)
       IN  /\ QLess(updated, Int2Q(MaxData + 1))
           /\ QLess(Int2Q(-MaxData - 1), updated)
           /\ nodes' = [nodes EXCEPT ![n].data = updated]
    /\ mutations' = mutations + 1
    /\ result' = Unit("add_to_data", <<n>>)
    /\ UNCHANGED <<cap, neuron, engine, zeroed,
                   handles,
                   mlp, train>>

\* -------------------------------------------- the engine specification --

DataVals == {Int2Q(k) : k \in -MaxData..MaxData}

NoNeuron == [weights |-> <<>>, bias |-> 0]

NoMlp == [num_inputs |-> 0, layers |-> <<>>]

NoTraining ==
    [k |-> 0, loss |-> 0, y_predictions |-> <<>>, xs |-> <<>>, ys |-> <<>>]

Idle ==
    /\ pc = "idle"
    /\ root = 0
    /\ topological_ordering = <<>>
    /\ idx = 0
    /\ fired = <<>>
    /\ pre = <<>>
    /\ passes = <<>>
    /\ zeroed = {}
    /\ mutations = 0
    /\ result = NoCall

Init ==
    /\ nodes = <<>>
    /\ handles = <<>>
    /\ cap = MaxNodes
    /\ neuron = NoNeuron
    /\ mlp = NoMlp
    /\ train = NoTraining
    /\ Idle

\* The behaviours explored: the graph is built (and its data mutated) before
\* the first pass is called, and zero_grad calls lie between passes.
Building == passes = <<>>
Between == passes # <<>> /\ Len(passes) < MaxPasses

Next ==
    \/ Building /\ \E d \in DataVals : NewScalar(d)
    \/ Building /\ \E a, b \in Ids : Add(a, b)
    \/ Building /\ \E a, b \in Ids : Mul(a, b)
    \/ \E r \in Ids : BackPropCall(r)
    \/ BackPropStep
    \/ BackPropReturn
    \/ Between /\ \E n \in Ids : ZeroGrad(n)
    \/ Building /\ \E n \in Ids, delta \in {Int2Q(-1), One} : AddToData(n, delta)

Spec == Init /\ [][Next]_vars

\* ------------------------------------------ deeper graphs, one pass -----

\* Nodes the deep-graph specification allocates at most.
MaxDeepNodes == 4

\* Its leaves hold an integer in 1..MaxDeepData.
MaxDeepData == 2

DeepVals == {Int2Q(k) : k \in 1..MaxDeepData}

InitDeep ==
    /\ nodes = <<>>
    /\ handles = <<>>
    /\ cap = MaxDeepNodes
    /\ neuron = NoNeuron
    /\ mlp = NoMlp
    /\ train = NoTraining
    /\ Idle

NextDeep ==
    \/ Building /\ \E d \in DeepVals : NewScalar(d)
    \/ Building /\ \E a, b \in Ids : Add(a, b)
    \/ Building /\ \E a, b \in Ids : Mul(a, b)
    \/ Building /\ \E r \in Ids : BackPropCall(r)
    \/ BackPropStep
    \/ BackPropReturn

SpecDeep == InitDeep /\ [][NextDeep]_vars


\* --------------------------------------- the arithmetic specification ---
\* Two leaves a and b hold any pair of operands; one operation is applied
\* to them, and passes may follow.

Operands == {Int2Q(k) : k \in -MaxOperand..MaxOperand}

InitOps ==
    /\ \E da, db \in Operands : nodes = ScalarNew(ScalarNew(<<>>, da), db)
    /\ handles = <<1, 1>>
    /\ cap = MaxOpNodes
    /\ neuron = NoNeuron
    /\ mlp = NoMlp
    /\ train = NoTraining
    /\ Idle

Pair == Len(nodes) = 2

NextOps ==
    \/ Pair /\ \E a, b \in Ids : Add(a, b)
    \/ Pair /\ \E a, b \in Ids : Mul(a, b)
    \/ Pair /\ \E a, b \in Ids : Sub(a, b)
    \/ Pair /\ \E a, b \in Ids : Div(a, b)
    \/ Building /\ \E r \in Ids : BackPropCall(r)
    \/ BackPropStep
    \/ BackPropReturn

SpecOps == InitOps /\ [][NextOps]_vars

\* ------------------------------------------- the neuron specification ---

\* Neuron::forward when the input count is not the weight count
ForwardErr(inputs) ==
    /\ pc = "idle"
    /\ ShapeMismatch(neuron, inputs)
    /\ result' = Failed("forward", inputs, ShapeError(neuron, inputs))
    /\ UNCHANGED <<nodes, cap, neuron, engine, zeroed, mutations,
                   handles,
                   mlp, train>>

\* Neuron::forward when it is
ForwardOk(inputs) ==
    /\ ~ShapeMismatch(neuron, inputs)
    /\ Allocates(2 * Min(Len(inputs), Len(neuron.weights)) + 1)
    /\ nodes' = Forward(nodes, neuron, inputs)
    /\ result' = Returned("forward", inputs, Len(nodes'))
    /\ handles' = Held(handles, nodes', {Len(nodes')})
    /\ UNCHANGED <<cap, neuron, engine, zeroed, mutations,
                   mlp, train>>

NeuronForward(inputs) == ForwardErr(inputs) \/ ForwardOk(inputs)

\* A loop over the parameters that misses the first one.
ZeroAllButFirst(g, ps) ==
    [i \in 1..Len(g) |->
        IF \E k \in 2..Len(ps) : ps[k] = i THEN [g[i] EXCEPT !.grad = Zero]
        ELSE g[i]]

\* Neuron::zero_grad: zero_grad on every parameter
RECURSIVE ZeroAll(_, _)
ZeroAll(g, ps) ==
    IF ps = <<>> THEN g
    ELSE ZeroAll([g EXCEPT ![Head(ps)].grad = Zero], Tail(ps))

NeuronZeroGrad ==
    /\ pc = "idle"
    /\ nodes' = ZeroAll(nodes, Parameters(neuron))
    /\ zeroed' = zeroed \cup Range(Parameters(neuron))
    /\ result' = Unit("zero_grad", Parameters(neuron))
    /\ UNCHANGED <<cap, neuron, engine, mutations,
                   handles,
                   mlp, train>>

\* What Uniform::new(-1.0, 1.0) may give a weight or the bias.
WeightVals == {Q(-1, 2), Q(1, 2)}

InitNeuron ==
    /\ \E n \in 1..MaxWeights :
          \E weights \in [1..n -> WeightVals], bias \in WeightVals :
              /\ nodes = NeuronNew(<<>>, weights, bias).nodes
              /\ neuron = NeuronNew(<<>>, weights, bias).neuron
              /\ handles = [i \in 1..(n + 1) |-> 1]
    /\ cap = MaxNeuronNodes
    /\ mlp = NoMlp
    /\ train = NoTraining
    /\ Idle

\* The Scalars a caller made to pass as inputs: the leaves that are not
\* parameters.
Inputs == {n \in Ids \ Range(Parameters(neuron)) : nodes[n].op = "leaf"}

InputLists == UNION {[1..k -> Inputs] : k \in 0..(MaxWeights + 1)}

NextNeuron ==
    \/ Cardinality(Inputs) < MaxInputs /\ \E d \in DataVals : NewScalar(d)
    \/ \E inputs \in InputLists : NeuronForward(inputs)
    \/ Building /\ \E r \in Ids : BackPropCall(r)
    \/ BackPropStep
    \/ BackPropReturn
    \/ NeuronZeroGrad

SpecNeuron == InitNeuron /\ [][NextNeuron]_vars

\* --------------------------------------- the ownership specification ---
\* Each node lives in an Rc: it is destroyed when its strong count falls to
\* zero, and then lets go of what it owns.

\* Nodes the ownership specification allocates at most.
MaxOwnedNodes == 3

\* Handles a caller holds to one node at most.
MaxHandles == 2

\* The nodes the back_prop closure of node m holds a strong reference to:
\* the clones of Rc<RefCell<Value>> that the closure moved in.
Captured(g, m) ==
    CASE g[m].op = "add" -> <<m>>
      [] g[m].op = "mul" -> g[m].producers \o <<m>>
      [] g[m].op = "pow" -> g[m].producers \o <<m>>
      [] g[m].op = "tanh" -> <<m>>
      [] OTHER -> <<>>

\* The strong references node m owns: its producers and its closure's.
Owned(g, m) == g[m].producers \o Captured(g, m)

\* How many of them refer to n.
Refs(g, m, n) == Cardinality({k \in DOMAIN Owned(g, m) : Owned(g, m)[k] = n})

RECURSIVE RefsFrom(_, _, _)
RefsFrom(g, owners, n) ==
    IF owners = {} THEN 0
    ELSE LET m == CHOOSE x \in owners : TRUE
         IN  Refs(g, m, n) + RefsFrom(g, owners \ {m}, n)

\* Rc::strong_count of node n while the nodes of live exist.
StrongCount(g, h, live, n) == h[n] + RefsFrom(g, live, n)

\* Dropping: a node whose count is zero is destroyed together with what it
\* owns, which may bring further counts to zero.
RECURSIVE Sweep(_, _, _)
Sweep(g, h, live) ==
    LET dead == {n \in live : StrongCount(g, h, live, n) = 0}
    IN  IF dead = {} THEN live ELSE Sweep(g, h, live \ dead)

\* The nodes that exist.
Live(g, h) == Sweep(g, h, 1..Len(g))

\* The caller needs a handle to a node to use it.
Usable(n) == n \in Ids /\ handles[n] > 0

\* Scalar::tanh
TanhOf(a) ==
    /\ Allocates(1)
    /\ nodes' = ScalarTanh(nodes, a)
    /\ result' = Returned("tanh", <<a>>, Len(nodes'))
    /\ handles' = Held(handles, nodes', {Len(nodes')})
    /\ UNCHANGED <<cap, neuron, engine, zeroed, mutations,
                   mlp, train>>

\* Scalar::pow
PowOf(a, power) ==
    /\ Allocates(1)
    /\ nodes' = ScalarPow(nodes, a, power)
    /\ result' = Returned("pow", <<a>>, Len(nodes'))
    /\ handles' = Held(handles, nodes', {Len(nodes')})
    /\ UNCHANGED <<cap, neuron, engine, zeroed, mutations,
                   mlp, train>>

\* Clone for Scalar: one more handle to the same node
CloneOf(n) ==
    /\ pc = "idle"
    /\ handles[n] > 0
    /\ handles[n] < MaxHandles
    /\ handles' = [handles EXCEPT ![n] = @ + 1]
    /\ result' = Returned("clone", <<n>>, n)
    /\ UNCHANGED <<nodes, cap, neuron, engine, zeroed, mutations,
                   mlp, train>>

\* A Scalar goes out of scope: one handle fewer
DropOf(n) ==
    /\ pc = "idle"
    /\ handles[n] > 0
    /\ handles' = [handles EXCEPT ![n] = @ - 1]
    /\ result' = Unit("drop", <<n>>)
    /\ UNCHANGED <<nodes, cap, neuron, engine, zeroed, mutations,
                   mlp, train>>

InitOwned ==
    /\ nodes = <<>>
    /\ handles = <<>>
    /\ cap = MaxOwnedNodes
    /\ neuron = NoNeuron
    /\ mlp = NoMlp
    /\ train = NoTraining
    /\ Idle

Handled == {n \in Ids : Usable(n)}

NextOwned ==
    \/ \E d \in DataVals : NewScalar(d)
    \/ \E a, b \in Handled : Add(a, b)
    \/ \E a, b \in Handled : Mul(a, b)
    \/ \E a \in Handled : TanhOf(a)
    \/ \E a \in Handled : PowOf(a, 2)
    \/ \E n \in Handled : CloneOf(n)
    \/ \E n \in Handled : DropOf(n)

SpecOwned == InitOwned /\ [][NextOwned]_vars

\* ------------------------------------------ the network specification --

\* The network takes at most this many inputs,
MaxMlpInputs == 2

\* has at most this many layers,
MaxLayers == 2

\* of at most this many neurons each;
MaxWidth == 2

\* forward is called at most this many times,
MaxForwards == 1

\* and the behaviour allocates at most this many nodes.
MaxMlpNodes == 60

\* The random generator's numbers repeat with this period.
RngPeriod == 2

\* MultiLayerPerceptron::forward; a panic ends the program.
MultiLayerPerceptronForward(numbers) ==
    /\ pc = "idle"
    /\ \E out \in {MlpForward(nodes, mlp, numbers)} :
           /\ Len(out.g) <= cap
           /\ nodes' = out.g
           /\ result' = IF out.ok
                        THEN Returned("mlp_forward", numbers, out.outs)
                        ELSE Failed("mlp_forward", numbers, out.err)
           /\ pc' = IF out.ok THEN "idle" ELSE "panic"
           /\ handles' = Held(handles, out.g,
                              IF out.ok THEN Range(out.outs) ELSE {})
    /\ UNCHANGED <<cap, neuron, root, topological_ordering, idx, fired, pre,
                   passes, zeroed, mutations, mlp, train>>

\* MultiLayerPerceptron::zero_grad: zero_grad on every parameter
MultiLayerPerceptronZeroGrad ==
    /\ pc = "idle"
    /\ nodes' = ZeroAll(nodes, MlpParameters(mlp))
    /\ zeroed' = zeroed \cup Range(MlpParameters(mlp))
    /\ result' = Unit("zero_grad", MlpParameters(mlp))
    /\ UNCHANGED <<cap, neuron, engine, mutations, handles, mlp, train>>

LayerSizes == UNION {[1..k -> 1..MaxWidth] : k \in 1..MaxLayers}

InitMlp ==
    /\ \E num_inputs \in 1..MaxMlpInputs, layer_num_outputs \in LayerSizes,
          rng \in [1..RngPeriod -> WeightVals] :
          \E made \in {MultiLayerPerceptronNew(<<>>, num_inputs,
                                                layer_num_outputs, rng)} :
              /\ nodes = made.nodes
              /\ mlp = made.mlp
              /\ handles = [i \in 1..Len(made.nodes) |-> 1]
    /\ cap = MaxMlpNodes
    /\ neuron = NoNeuron
    /\ train = NoTraining
    /\ Idle

NumberLists == UNION {[1..k -> DataVals] : k \in 0..(MaxMlpInputs + 1)}

RECURSIVE NeuronCount(_)
NeuronCount(layers) ==
    IF layers = <<>> THEN 0
    ELSE Len(Head(layers)) + NeuronCount(Tail(layers))

\* The completed forward calls: each left one tanh node per neuron.
Forwards ==
    Cardinality({n \in Ids : nodes[n].op = "tanh"}) \div NeuronCount(mlp.layers)

NextMlp ==
    \/ /\ Forwards < MaxForwards
       /\ \E numbers \in NumberLists : MultiLayerPerceptronForward(numbers)
    \/ MultiLayerPerceptronZeroGrad

SpecMlp == InitMlp /\ [][NextMlp]_vars

\* ----------------------------------------- the training specification --

\* train's xs has at most this many rows,
MaxRows == 1

\* and the behaviour allocates at most this many nodes.
MaxTrainNodes == 200

\* `let learning_rate = 0.1;`
LearningRate == Round(Q(1, 10))

\* `xs.iter().flat_map(|x| mlp.forward(x)).collect()` from row i on.
\* st is [g, outs, ok, err].
RECURSIVE Predictions(_, _, _, _)
Predictions(st, m, xs, i) ==
    IF i > Len(xs) \/ ~st.ok THEN st
    ELSE Only({Predictions([out EXCEPT !.outs = was.outs \o @], m, xs, i + 1) :
               <<was, out>> \in {<<st, MlpForward(st.g, m, xs[i])>>}})

\* The loop of mse over ground_truths.iter().zip(predictions.iter()), from
\* pair i on.  st is [g, loss].
RECURSIVE MseLoop(_, _, _, _)
MseLoop(st, ground_truths, predictions, i) ==
    IF i > Min(Len(ground_truths), Len(predictions)) THEN st
    ELSE Only({MseLoop([g |-> added, loss |-> Len(added)],
                       ground_truths, predictions, i + 1) :
               added \in
                 {ScalarAdd(diff_squared, st.loss, Len(diff_squared)) :
                  diff_squared \in
                    {ScalarPow(diff, Len(diff), 2) :
                     diff \in {ScalarSub(st.g, predictions[i],
                                         ground_truths[i])}}}})

\* mse
Mse(g, ground_truths, predictions) ==
    Only({MseLoop([g |-> zero, loss |-> Len(zero)],
                  ground_truths, predictions, 1) :
          zero \in {ScalarNew(g, Zero)}})

\* `for p in mlp.parameters() { p.add_to_data(p.get_grad() * -learning_rate) }`
RECURSIVE UpdateAll(_, _, _)
UpdateAll(g, ps, learning_rate) ==
    IF ps = <<>> THEN g
    ELSE UpdateAll([g EXCEPT ![Head(ps)].data =
                        FAdd(@, FMul(g[Head(ps)].grad, QNeg(learning_rate)))],
                   Tail(ps), learning_rate)

\* The forward pass of one iteration of train: the predictions and the loss.
TrainForward ==
    /\ pc = "idle"
    /\ train.loss = 0
    /\ train.k < MaxPasses
    /\ \E out \in {Predictions([g |-> nodes, outs |-> <<>>, ok |-> TRUE,
                               err |-> <<>>], mlp, train.xs, 1)} :
          IF out.ok
          THEN \E st \in {Mse(out.g, train.ys, out.outs)} :
                  /\ Len(st.g) <= cap
                  /\ nodes' = st.g
                  /\ train' = [train EXCEPT !.loss = st.loss,
                                            !.y_predictions = out.outs]
                  /\ handles' = Held(handles, st.g,
                                     Range(out.outs) \cup {st.loss})
                  /\ result' = Returned("mse", <<train.ys, out.outs>>, st.loss)
                  /\ pc' = "idle"
          ELSE /\ nodes' = out.g
               /\ train' = train
               /\ handles' = Held(handles, out.g, {})
               /\ result' = Failed("mlp_forward", train.xs, out.err)
               /\ pc' = "panic"
    /\ UNCHANGED <<cap, neuron, root, topological_ordering, idx, fired, pre,
                   passes, zeroed, mutations, mlp>>

\* `mlp.zero_grad();` in train
TrainZeroGrad ==
    /\ train.loss # 0
    /\ Len(passes) = train.k
    /\ zeroed = {}
    /\ MultiLayerPerceptronZeroGrad

\* `loss.backward();` in train
TrainBackward ==
    /\ train.loss # 0
    /\ Len(passes) = train.k
    /\ zeroed # {}
    /\ BackPropCall(train.loss)

\* The pass has returned and the update is next.
AtUpdate == pc = "idle" /\ train.loss # 0 /\ Len(passes) = train.k + 1

\* The update of one iteration of train; y_predictions and loss then go out
\* of scope.
TrainUpdate ==
    /\ AtUpdate
    /\ nodes' = UpdateAll(nodes, MlpParameters(mlp), LearningRate)
    /\ mutations' = mutations + Len(MlpParameters(mlp))
    /\ result' = Unit("add_to_data",
                      <<MlpParameters(mlp)[Len(MlpParameters(mlp))]>>)
    /\ handles' = [i \in Ids |->
                      IF i = train.loss \/ i \in Range(train.y_predictions)
                      THEN handles[i] - 1 ELSE handles[i]]
    /\ train' = [train EXCEPT !.k = @ + 1, !.loss = 0, !.y_predictions = <<>>]
    /\ UNCHANGED <<cap, neuron, engine, zeroed, mlp>>

\* The rows of xs tried: one number repeated.
Rows(num_inputs) == {[i \in 1..num_inputs |-> d] : d \in DataVals}

\* The ground truths tried.
Truths == {Int2Q(-1), One}

RECURSIVE ScalarIds(_, _)
ScalarIds(first, count) ==
    IF count = 0 THEN <<>> ELSE <<first>> \o ScalarIds(first + 1, count - 1)

InitTrain ==
    /\ \E num_inputs \in 1..MaxMlpInputs, layer_num_outputs \in LayerSizes,
          rng \in [1..RngPeriod -> WeightVals], rows \in 1..MaxRows :
          \E xs \in [1..rows -> Rows(num_inputs)],
             ys \in [1..rows -> Truths] :
              \E made \in {MultiLayerPerceptronNew(<<>>, num_inputs,
                                                    layer_num_outputs, rng)} :
                  /\ layer_num_outputs[Len(layer_num_outputs)] = 1
                  /\ nodes = ScalarsOf(made.nodes, ys)
                  /\ mlp = made.mlp
                  /\ handles = [i \in 1..(Len(made.nodes) + rows) |-> 1]
                  /\ train = [NoTraining EXCEPT
                                 !.xs = xs,
                                 !.ys = ScalarIds(Len(made.nodes) + 1, rows)]
    /\ cap = MaxTrainNodes
    /\ neuron = NoNeuron
    /\ Idle

NextTrain ==
    \/ TrainForward
    \/ TrainZeroGrad
    \/ TrainBackward
    \/ BackPropStep
    \/ BackPropReturn
    \/ TrainUpdate

SpecTrain == InitTrain /\ [][NextTrain]_vars

\* ------------------------------------------- what the claims speak of ---

\* The nodes reachable from r through producer edges, r included.
RECURSIVE Reachable(_, _)
Reachable(g, r) ==
    {r} \cup UNION {Reachable(g, p) : p \in Range(g[r].producers)}

\* The nodes of Reachable(g, r) that have n among their producers.
Consumers(g, r, n) == {c \in Reachable(g, r) : n \in Range(g[c].producers)}

\* d(node c) / d(its k-th operand), for the operand data as it is now.
LocalDerivative(g, c, k) ==
    CASE g[c].op = "add" -> One
      [] g[c].op = "mul" -> g[g[c].producers[3 - k]].data

\* The sum, over the producer-edge paths from c to n, of the product of the
\* local derivatives along the path, each path counted `1 + bonus * length`
\* times: with bonus = 0 this is d(c)/d(n) in exact arithmetic.
RECURSIVE PathSum(_, _, _, _, _), PathSumFrom(_, _, _, _, _, _)
PathSum(g, c, n, weight, bonus) ==
    IF c = n THEN Int2Q(weight)
    ELSE PathSumFrom(g, c, n, weight + bonus, bonus, Len(g[c].producers))

PathSumFrom(g, c, n, weight, bonus, k) ==
    IF k = 0 THEN Zero
    ELSE QAdd(PathSumFrom(g, c, n, weight, bonus, k - 1),
              QMul(LocalDerivative(g, c, k),
                   PathSum(g, g[c].producers[k], n, weight, bonus)))

Derivative(g, c, n) == PathSum(g, c, n, 1, 0)

\* The number of producer-edge paths from c to n.
RECURSIVE PathCount(_, _, _), PathCountFrom(_, _, _, _)
PathCount(g, c, n) ==
    IF c = n THEN 1 ELSE PathCountFrom(g, c, n, Len(g[c].producers))

PathCountFrom(g, c, n, k) ==
    IF k = 0 THEN 0
    ELSE PathCountFrom(g, c, n, k - 1) + PathCount(g, g[c].producers[k], n)

\* The length of the longest producer-edge path from c to n (n reachable).
RECURSIVE Depth(_, _, _)
Depth(g, c, n) ==
    IF c = n THEN 0
    ELSE LET via == {p \in Range(g[c].producers) : n \in Reachable(g, p)}
             far == {Depth(g, p, n) : p \in via}
         IN  1 + CHOOSE d \in far : \A e \in far : e <= d

AllZero(grads) == \A i \in DOMAIN grads : grads[i] = Zero

AddMulOnly(g, r) == \A c \in Reachable(g, r) : g[c].op \in {"leaf", "add", "mul"}

Positions(order, n) == {i \in DOMAIN order : order[i] = n}

\* back_prop's loop is over and it is about to return.
Finished == pc = "back_prop" /\ idx = 0

\* ... on a graph whose grads were all zero when it was called
FinishedFresh == Finished /\ AllZero(pre)

\* C1: after backward(root) on an add/multiply graph whose gradients were
\* all zero, every node reachable from root holds in grad the partial
\* derivative of root with respect to it: the sum over the producer-edge
\* paths of the product of the local derivatives.
C1_GradIsDerivative ==
    (FinishedFresh /\ AddMulOnly(nodes, root)) =>
        \A n \in Reachable(nodes, root) :
            nodes[n].grad = Derivative(nodes, root, n)

\* C1's case: a pass has finished on a graph where some node is reached by
\* several paths, one through a multiplication, with a derivative that is
\* neither 0 nor 1.
C1_Witness ==
    /\ FinishedFresh
    /\ \E n \in Reachable(nodes, root), c \in Reachable(nodes, root) :
          /\ PathCount(nodes, root, n) >= 2
          /\ nodes[c].op = "mul" /\ n \in Reachable(nodes, c) /\ n # c
          /\ nodes[n].grad \notin {Zero, One}


\* The second pass of a behaviour has finished on the root of the first,
\* which ran on all-zero grads, with no add_to_data in between.
SecondPassSameRoot ==
    /\ Finished
    /\ Len(passes) = 1
    /\ passes[1].root = root
    /\ AllZero(passes[1].pre)
    /\ passes[1].mutations = mutations

\* ... and no zero_grad in between either
TwiceInARow == SecondPassSameRoot /\ zeroed = {}

Leaves(g, r) == {n \in Reachable(g, r) : g[n].op = "leaf"}

\* C3 as stated: zero_grad on the parameters (the leaves under root), then
\* backward(root), gives every reachable node the grad of a single
\* backward on a fresh graph.
C3_ZeroParametersThenBackward ==
    (SecondPassSameRoot /\ zeroed = Leaves(nodes, root)) =>
        \A n \in Reachable(nodes, root) : nodes[n].grad = passes[1].post[n]

\* C3 amended: zero_grad on every node reachable from root other than root
\* itself (the intermediate nodes too), then backward(root), gives every
\* reachable node the grad of a single backward on a fresh graph.
C3_ZeroAllThenBackward ==
    (SecondPassSameRoot /\ Reachable(nodes, root) \ {root} \subseteq zeroed) =>
        \A n \in Reachable(nodes, root) : nodes[n].grad = passes[1].post[n]

\* C3's case: the second pass ran after zero_grad on the leaves and on an
\* intermediate node, the root not zeroed, and left a leaf a non-zero grad.
C3_Witness ==
    /\ SecondPassSameRoot
    /\ Reachable(nodes, root) \ {root} \subseteq zeroed
    /\ root \notin zeroed
    /\ \E n \in zeroed : nodes[n].op # "leaf"
    /\ \E n \in Leaves(nodes, root) : nodes[n].grad # Zero

\* C4: for c = a + a on grads all zero, backward(c) puts a into the
\* ordering once, runs c's closure once, and leaves a.grad = 2, c.grad = 1.
C4_ReusedOperand ==
    (FinishedFresh /\ nodes[root].op = "add"
       /\ nodes[root].producers[1] = nodes[root].producers[2]) =>
        LET a == nodes[root].producers[1]
        IN  /\ Cardinality(Positions(topological_ordering, a)) = 1
            /\ fired[root] = 1
            /\ nodes[a].grad = Int2Q(2)
            /\ nodes[root].grad = One

\* C4's case: backward has finished on a root c = a + a.
C4_Witness ==
    /\ FinishedFresh
    /\ nodes[root].op = "add"
    /\ nodes[root].producers[1] = nodes[root].producers[2]

\* C7: throughout backward(root) a node not reachable from root is not in
\* the ordering, has no closure invoked, and keeps the grad it had.
C7_UnreachableUntouched ==
    pc = "back_prop" =>
        \A n \in Ids \ Reachable(nodes, root) :
            /\ nodes[n].grad = pre[n]
            /\ fired[n] = 0
            /\ Positions(topological_ordering, n) = {}

\* C7's case: a pass has finished that changed a reachable grad while an
\* unreachable node carried a non-zero grad from an earlier pass.
C7_Witness ==
    /\ Finished
    /\ \E n \in Ids \ Reachable(nodes, root) : pre[n] # Zero
    /\ \E m \in Reachable(nodes, root) \ {root} : nodes[m].grad # pre[m]

\* C8: when the loop reaches a node, every consumer of it under root has
\* had its turn already, and the step changes the grad of no node whose
\* turn has come (this one included).
C8_ConsumersFirst ==
    [][(pc = "back_prop" /\ idx >= 1) =>
          LET s == topological_ordering[idx]
          IN  /\ \A c \in Consumers(nodes, root, s) :
                    \A i \in Positions(topological_ordering, c) : i > idx
              /\ \A i \in idx..Len(topological_ordering) :
                    nodes'[topological_ordering[i]].grad
                        = nodes[topological_ordering[i]].grad]_vars

\* C8's case: the loop is at a node with a closure and two consumers.
C8_Witness ==
    /\ pc = "back_prop" /\ idx >= 1
    /\ HasBackProp(nodes, topological_ordering[idx])
    /\ Cardinality(Consumers(nodes, root, topological_ordering[idx])) >= 2

\* What holds of the ordering throughout a pass: it holds exactly the nodes
\* reachable from root, each once, every producer before its consumer, and
\* the closures that have run are those of the positions the loop has passed.
TraversalOnce ==
    pc = "back_prop" =>
        /\ Range(topological_ordering) = Reachable(nodes, root)
        /\ Len(topological_ordering) = Cardinality(Reachable(nodes, root))
        /\ \A i \in DOMAIN topological_ordering :
              \A p \in Range(nodes[topological_ordering[i]].producers) :
                  \E j \in 1..(i - 1) : topological_ordering[j] = p
        /\ idx \in 0..Len(topological_ordering)
        /\ \A n \in Ids :
              fired[n] = Cardinality({i \in Positions(topological_ordering, n) :
                                          i > idx /\ HasBackProp(nodes, n)})
        /\ idx = 0 =>
              \A n \in Ids :
                  fired[n] = IF n \in Reachable(nodes, root)
                                /\ HasBackProp(nodes, n) THEN 1 ELSE 0

\* C9: on any graph, shared sub-expressions included, the traversal records
\* every node reachable from root exactly once, producers first; every step
\* of the loop moves one position towards its end, where back_prop returns,
\* and by then each reachable node's closure has run exactly once.
C9_TraversalTerminatesOnce ==
    /\ []TraversalOnce
    /\ [][pc = "back_prop" =>
             IF idx >= 1 THEN pc' = "back_prop" /\ idx' = idx - 1
             ELSE pc' = "idle" /\ Len(passes') = Len(passes) + 1]_vars

\* C9's case: a pass has finished on a graph with a node that is a
\* producer twice over (a diamond) and is not a leaf.
C9_Witness ==
    /\ Finished
    /\ \E n \in Reachable(nodes, root) :
          /\ HasBackProp(nodes, n)
          /\ PathCount(nodes, root, n) >= 2

\* C10: when the closure of out = a * b runs, a.grad grows by b's data as
\* it is now times out.grad and b.grad by a's data as it is now times
\* out.grad; a node's data changes only by add_to_data on that very node,
\* so out.data stays what construction computed when an operand is mutated.
C10_MulReadsCurrentData ==
    [][/\ (pc = "back_prop" /\ idx >= 1
            /\ nodes[topological_ordering[idx]].op = "mul") =>
              LET out == topological_ordering[idx]
                  a == nodes[out].producers[1]
                  b == nodes[out].producers[2]
                  da == FMul(nodes[b].data, nodes[out].grad)
                  db == FMul(nodes[a].data, nodes[out].grad)
              IN  IF a = b
                  THEN nodes'[a].grad = FAdd(FAdd(nodes[a].grad, da), db)
                  ELSE /\ nodes'[a].grad = FAdd(nodes[a].grad, da)
                       /\ nodes'[b].grad = FAdd(nodes[b].grad, db)
       /\ \A i \in Ids :
              nodes'[i].data # nodes[i].data =>
                  result' = Unit("add_to_data", <<i>>)
      ]_vars

\* C10's case: the closure of a product has run whose operands' data, as it
\* is now, is not what was read at construction, with a non-zero result.
C10_Witness ==
    /\ pc = "back_prop"
    /\ \E out \in Ids :
          /\ nodes[out].op = "mul"
          /\ fired[out] = 1
          /\ nodes[out].data = FMul(nodes[out].built[1], nodes[out].built[2])
          /\ LET a == nodes[out].producers[1]
                 b == nodes[out].producers[2]
             IN  /\ a # b
                 /\ nodes[b].data # nodes[out].built[2]
                 /\ nodes[out].data # FMul(nodes[a].data, nodes[b].data)
                 /\ nodes[a].grad = FMul(nodes[b].data, nodes[out].grad)
                 /\ nodes[a].grad # FMul(nodes[out].built[2], nodes[out].grad)


\* The last call applied `call` to the leaves a and b and returned a node.
Applied(call) ==
    /\ result.call = call
    /\ result.ok
    /\ \A i \in DOMAIN result.args : nodes[result.args[i]].op = "leaf"

OperandA == nodes[result.args[1]].data
OperandB == nodes[result.args[2]].data

\* C5 as stated: the result's data is da + db, da * db, da - db, and, for
\* db # 0, da / db.
C5_DataIsTheOperation ==
    /\ Applied("add") => nodes[result.ret].data = FAdd(OperandA, OperandB)
    /\ Applied("mul") => nodes[result.ret].data = FMul(OperandA, OperandB)
    /\ Applied("sub") => nodes[result.ret].data = FSub(OperandA, OperandB)
    /\ (Applied("div") /\ OperandB # Zero) =>
          nodes[result.ret].data = FDiv(OperandA, OperandB)

\* C5 amended: the result's data is da + db, da * db, da - db, and, for
\* db # 0, da times the rounded reciprocal of db, which is da / db whenever
\* that reciprocal is exact.
C5_DataIsTheComposition ==
    /\ Applied("add") => nodes[result.ret].data = FAdd(OperandA, OperandB)
    /\ Applied("mul") => nodes[result.ret].data = FMul(OperandA, OperandB)
    /\ Applied("sub") => nodes[result.ret].data = FSub(OperandA, OperandB)
    /\ (Applied("div") /\ OperandB # Zero) =>
          /\ nodes[result.ret].data = FMul(OperandA, Powf(OperandB, -1))
          /\ Powf(OperandB, -1) = QInv(OperandB) =>
                nodes[result.ret].data = FDiv(OperandA, OperandB)

\* C5's case: a quotient by an operand whose reciprocal is not exact has
\* been built, and a quotient whose data is not da / db.
C5_Witness ==
    /\ Applied("div")
    /\ OperandB # Zero
    /\ Powf(OperandB, -1) # QInv(OperandB)
    /\ nodes[result.ret].data = FMul(OperandA, Powf(OperandB, -1))
    /\ nodes[result.ret].data # FDiv(OperandA, OperandB)

\* C6: forward on an input list whose length is not the weight count
\* returns the error with both counts and leaves every node as it was
\* (none created; no data, grad, label or producer list changed).
C6_ShapeMismatchIsAnError ==
    [][(result' # result /\ result'.call = "forward"
          /\ Len(result'.args) # Len(neuron.weights)) =>
            /\ ~result'.ok
            /\ result'.err = Text("Expected ")
                             \o Num(Int2Q(Len(neuron.weights)))
                             \o Text(" inputs, not ")
                             \o Num(Int2Q(Len(result'.args)))
            /\ nodes' = nodes]_vars

\* C6's case: forward has failed on a graph that an earlier forward built
\* and a pass gave non-zero grads.
C6_Witness ==
    /\ result.call = "forward"
    /\ ~result.ok
    /\ Len(result.args) > Len(neuron.weights)
    /\ \E n \in Ids : nodes[n].op = "tanh" /\ nodes[n].grad # Zero
    /\ \E w \in Range(neuron.weights) : nodes[w].grad # Zero

\* The nodes that have n among their producers, directly or through
\* other nodes.
Downstream(g, n) == {m \in 1..Len(g) : m # n /\ n \in Reachable(g, m)}

\* C11: a derived node to which no Scalar handle is left, and to whose
\* consumers no Scalar handle is left either, no longer exists.
C11_UnreferencedNodeIsDestroyed ==
    \A n \in Ids :
        (/\ nodes[n].op # "leaf"
         /\ handles[n] = 0
         /\ \A m \in Downstream(nodes, n) : handles[m] = 0)
        => n \notin Live(nodes, handles)

\* The number of inputs layer l of the network is given: the network's
\* for the first layer, the previous layer's output count for the others.
InputsOfLayer(m, l) ==
    IF l = 1 THEN m.num_inputs ELSE Len(m.layers[l - 1])

\* C13: every neuron of every layer has as many weights as its layer is
\* given inputs, and forward on num_inputs numbers does not meet the
\* input-count error and returns one Scalar per neuron of the last layer.
C13_LayersAreChained ==
    /\ \A l \in DOMAIN mlp.layers :
          \A j \in DOMAIN mlp.layers[l] :
              Len(mlp.layers[l][j].weights) = InputsOfLayer(mlp, l)
    /\ (result.call = "mlp_forward"
          /\ Len(result.args) = mlp.num_inputs) =>
            /\ result.ok
            /\ pc # "panic"
            /\ Len(result.ret) = Len(mlp.layers[Len(mlp.layers)])
            /\ \A i \in DOMAIN result.ret : nodes[result.ret[i]].op = "tanh"

\* C13's case: a network of two layers whose first layer has another
\* width than the network has inputs has run forward and returned.
C13_Witness ==
    /\ Len(mlp.layers) >= 2
    /\ Len(mlp.layers[1]) # mlp.num_inputs
    /\ result.call = "mlp_forward"
    /\ result.ok
    /\ Len(result.args) = mlp.num_inputs
    /\ Len(result.ret) = Len(mlp.layers[2])

\* The graph with every grad at zero, as freshly constructed.
Fresh(g) == [i \in 1..Len(g) |-> [g[i] EXCEPT !.grad = Zero]]

\* back_prop's loop from position i of the ordering down, run to its end.
RECURSIVE RunClosures(_, _, _)
RunClosures(g, order, i) ==
    IF i = 0 THEN g
    ELSE Only({RunClosures(h, order, i - 1) : h \in {Invoke(g, order[i])}})

\* The grads one back_prop(r) leaves in the graph g.
GradsOfPass(g, r) ==
    Only({Grads(RunClosures(Seed(g, r), order, Len(order))) :
          order \in {TopologicalOrdering(g, r)}})

\* C12: when an iteration of train comes to its update, every parameter's
\* grad is the grad that back_prop of this iteration's loss gives it on a
\* graph whose grads were all zero: nothing of an earlier pass is in it.
C12_GradIsOfThisLossAlone ==
    AtUpdate =>
        \E alone \in {GradsOfPass(Fresh(nodes), train.loss)} :
            \A p \in Range(MlpParameters(mlp)) : nodes[p].grad = alone[p]

\* C12's case: a second iteration has come to its update, the first left
\* a non-zero grad on a parameter and moved its data, and the second pass
\* gave that parameter another non-zero grad.
C12_Witness ==
    /\ AtUpdate
    /\ train.k >= 1
    /\ \E p \in Range(MlpParameters(mlp)) :
          /\ passes[1].post[p] # Zero
          /\ nodes[p].grad # Zero
          /\ nodes[p].grad # passes[1].post[p]
          /\ nodes[p].grad # FAdd(passes[1].post[p], nodes[p].grad)

=============================================================================
